---- MODULE Spec2Model ----
(***************************************************************************)
(* A model of src/python-length.py: the class Length, a unit-aware length  *)
(* value stored in meters, with its constructor, convert_to, the value and *)
(* unit accessors, the arithmetic operators and the comparisons.           *)
(*                                                                         *)
(* Python's float is IEEE-754 binary floating point with round to nearest, *)
(* ties to even, gradual underflow and overflow to infinity.  The model    *)
(* keeps exactly that arithmetic but with a significand of Prec bits and   *)
(* the exponent range -MinExpMag .. MaxExp (binary64 has 53 bits and the   *)
(* range -1074 .. 971), so that every operation is computed in TLC's       *)
(* integers.  The sign of zero is not modelled: the code never observes    *)
(* it (0.0 == -0.0, and a division by either raises ZeroDivisionError).    *)
(***************************************************************************)
EXTENDS Integers, Sequences, FiniteSets, TLC

\* Bounds of the floating-point format.
Prec == 14
MaxExp == 10
MinExpMag == 40

EMin == 0 - MinExpMag

Max(i, j) == IF i >= j THEN i ELSE j
Min(i, j) == IF i <= j THEN i ELSE j

RECURSIVE BitLen(_)
BitLen(n) == IF n = 0 THEN 0 ELSE 1 + BitLen(n \div 2)

(***************************************************************************)
(* Floats.  A finite float is s * m * 2^e with sign s (0: +, 1: -), in     *)
(* canonical form: 2^(Prec-1) <= m < 2^Prec (normal), or e = EMin and      *)
(* m < 2^(Prec-1) (subnormal, zero included).                              *)
(***************************************************************************)
Fin(m, e) == [k |-> "fin", s |-> 0, m |-> m, e |-> e]
Zero == Fin(0, EMin)
Inf == [k |-> "inf", s |-> 0, m |-> 0, e |-> 0]
NaN == [k |-> "nan", s |-> 0, m |-> 0, e |-> 0]
Neg(x) == IF x.k = "nan" \/ (x.k = "fin" /\ x.m = 0) THEN x ELSE [x EXCEPT !.s = 1 - x.s]

IsNaN(x) == x.k = "nan"
IsInf(x) == x.k = "inf"
IsFinite(x) == x.k = "fin"
IsZero(x) == x.k = "fin" /\ x.m = 0

\* m * 2^e after rounding, m already of at most Prec bits: overflow gives inf.
Pack(m, e) ==
  IF m = 0 THEN Zero
  ELSE IF m = 2 ^ Prec
       THEN (IF e + 1 > MaxExp THEN Inf ELSE Fin(m \div 2, e + 1))
       ELSE (IF e > MaxExp THEN Inf ELSE Fin(m, e))

\* Round, given the quotient q and the remainder r of n by 2^shift, and
\* half = 2^(shift-1): up when r is above the half, to even when r is the half.
RoundParts(q, r, half, e) ==
  Pack(IF r > half \/ (r = half /\ q % 2 = 1) THEN q + 1 ELSE q, e)

\* Round, given the number of low bits of n to drop (none when shift <= 0: n is
\* then exact, and is shifted up to the canonical form).
RoundShift(n, e, bl, shift) ==
  IF shift <= 0
  THEN Pack(n * (2 ^ Min(Prec - bl, e - EMin)), e - Min(Prec - bl, e - EMin))
  ELSE IF shift > bl THEN Zero
  ELSE RoundParts(IF shift = bl THEN 0 ELSE n \div (2 ^ shift),
                  IF shift = bl THEN n ELSE n % (2 ^ shift),
                  2 ^ (shift - 1), e + shift)

\* The float nearest to n * 2^e (n >= 0), ties to even: n keeps Prec bits, fewer
\* below the smallest normal exponent.
Round(n, e) ==
  IF n = 0 THEN Zero
  ELSE RoundShift(n, e, BitLen(n), Max(BitLen(n) - Prec, EMin - e))

\* A non-zero finite float with its significand shifted up to Prec bits.
Norm(x) ==
  [m |-> x.m * (2 ^ (Prec - BitLen(x.m))), e |-> x.e - (Prec - BitLen(x.m))]

\* Order of the magnitudes of two finite floats: -1, 0, 1.
CmpMag(x, y) ==
  IF x.e = y.e THEN (IF x.m > y.m THEN 1 ELSE IF x.m < y.m THEN -1 ELSE 0)
  ELSE IF x.e > y.e THEN 1 ELSE -1

\* x < y on floats of the same sign s, neither NaN.
LtSameSign(x, y, s) ==
  IF s = 0
  THEN (IF IsInf(x) THEN FALSE ELSE IF IsInf(y) THEN TRUE ELSE CmpMag(x, y) < 0)
  ELSE (IF IsInf(y) THEN FALSE ELSE IF IsInf(x) THEN TRUE ELSE CmpMag(x, y) > 0)

\* x < y, x == y, x <= y on floats: false whenever one is NaN.
FLt(x, y) ==
  IF IsNaN(x) \/ IsNaN(y) THEN FALSE
  ELSE IF x.s # y.s THEN x.s = 1
  ELSE LtSameSign(x, y, x.s)
FEq(x, y) == ~IsNaN(x) /\ ~IsNaN(y) /\ x = y
FLe(x, y) == FLt(x, y) \/ FEq(x, y)

\* x * y for non-negative floats.
FMul(x, y) ==
  IF IsNaN(x) \/ IsNaN(y) THEN NaN
  ELSE IF IsInf(x) THEN (IF IsZero(y) THEN NaN ELSE Inf)
  ELSE IF IsInf(y) THEN (IF IsZero(x) THEN NaN ELSE Inf)
  ELSE Round(x.m * y.m, x.e + y.e)

\* a / b for normalised significands: Prec + 2 bits of the quotient and, as the
\* lowest bit, whether a remainder is left.
DivNorm(a, b) ==
  Round(2 * ((a.m * (2 ^ (Prec + 1))) \div b.m)
          + (IF (a.m * (2 ^ (Prec + 1))) % b.m = 0 THEN 0 ELSE 1),
        a.e - b.e - Prec - 2)

\* x / y for non-negative floats, y not zero (Python raises on a zero divisor).
FDiv(x, y) ==
  IF IsNaN(x) \/ IsNaN(y) THEN NaN
  ELSE IF IsInf(x) THEN (IF IsInf(y) THEN NaN ELSE Inf)
  ELSE IF IsInf(y) \/ IsZero(x) THEN Zero
  ELSE DivNorm(Norm(x), Norm(y))

\* hi + lo and hi - lo for finite floats, hi the one of the larger magnitude: lo
\* is too small to change hi when more than Prec + 1 binary places below it.
AddMag(hi, lo) ==
  IF hi.e - lo.e > Prec + 1 THEN hi ELSE Round(hi.m * (2 ^ (hi.e - lo.e)) + lo.m, lo.e)
SubMag(hi, lo) ==
  IF hi.e - lo.e > Prec + 1 THEN hi ELSE Round(hi.m * (2 ^ (hi.e - lo.e)) - lo.m, lo.e)

\* x + y for non-negative floats.
FAdd(x, y) ==
  IF IsNaN(x) \/ IsNaN(y) THEN NaN
  ELSE IF IsInf(x) \/ IsInf(y) THEN Inf
  ELSE IF CmpMag(x, y) >= 0 THEN AddMag(x, y) ELSE AddMag(y, x)

\* x - y for non-negative floats: the result carries its sign.
FSub(x, y) ==
  IF IsNaN(x) \/ IsNaN(y) THEN NaN
  ELSE IF IsInf(x) THEN (IF IsInf(y) THEN NaN ELSE Inf)
  ELSE IF IsInf(y) THEN Neg(Inf)
  ELSE IF CmpMag(x, y) = 0 THEN Zero
  ELSE IF CmpMag(x, y) > 0 THEN SubMag(x, y) ELSE Neg(SubMag(y, x))

\* (r * 2^d) mod m, computed a few bits at a time to stay within the integers.
RECURSIVE ShiftMod(_, _, _)
ShiftMod(r, d, m) ==
  IF d = 0 THEN r % m
  ELSE ShiftMod(((r % m) * (2 ^ Min(d, 30 - Prec))) % m, d - Min(d, 30 - Prec), m)

\* C's fmod(x, y) for finite non-negative x and y > 0: exact.
FMod(x, y) ==
  IF CmpMag(x, y) < 0 THEN x ELSE Round(ShiftMod(x.m, x.e - y.e, y.m), y.e)

\* floor(x) for a non-negative float.
FFloor(x) ==
  IF ~IsFinite(x) \/ x.e >= 0 THEN x
  ELSE IF 0 - x.e > Prec THEN Zero
  ELSE Round(x.m \div (2 ^ (0 - x.e)), 0)

One == Round(1, 0)
Half == Round(1, -1)

\* CPython's float_floor_div after div = (x - fmod(x, y)) / y: floor(div), one
\* more if div - floor(div) > 0.5.
FloorAdjust(div, fl) ==
  IF IsZero(div) THEN Zero
  ELSE IF IsInf(fl) THEN fl
  ELSE IF FLt(Half, FSub(div, fl)) THEN FAdd(fl, One) ELSE fl
FloorOf(div) == FloorAdjust(div, FFloor(div))

\* x // y for non-negative floats, y not zero.
FFloorDiv(x, y) ==
  IF IsNaN(x) \/ IsNaN(y) \/ IsInf(x) THEN NaN
  ELSE IF IsInf(y) THEN Zero
  ELSE FloorOf(FDiv(FSub(x, FMod(x, y)), y))

(***************************************************************************)
(* Python values and call outcomes.                                        *)
(*   A unit argument is an enum member of Length.UnitType, a str or None.  *)
(*   A value argument either converts with float() (numbers and numeric    *)
(*   strings, "inf" and "nan" included) or makes float() raise (None,      *)
(*   "abc").  A stored unit is a str, or None (written PyNone).            *)
(***************************************************************************)
PyNone == "<None>"
EnumArg(v) == [t |-> "enum", v |-> v]
StrArg(v) == [t |-> "str", v |-> v]
NoneArg == [t |-> "none", v |-> PyNone]
Num(f) == [t |-> "num", f |-> f]
NotANumber == [t |-> "bad", f |-> NaN]

NoExc == "ok"
KeyErrorNone == "KeyError: None"
UnitInvalid == "ValueError: Length Unit Invalid"
ZeroDivision == "ZeroDivisionError"
FloatError == "ValueError: could not convert to float"
Negative(label) == "ValueError: " \o label \o " Negative"
Invalid(label) == "ValueError: " \o label \o " Invalid"

\* Length.UnitType.get_unit_types(): the values of the enum, in order.
get_unit_types == <<"milimeter", "meter", "kilometer">>
units == {get_unit_types[i] : i \in 1..Len(get_unit_types)}

\* Length.__CONVERSION_FACTOR: the factor taking the unit to meters.
Milli == FDiv(One, Round(1000, 0))
Kilo == Round(1000, 0)
CONVERSION_FACTOR(unit) ==
  CASE unit = "milimeter" -> Milli
    [] unit = "meter" -> One
    [] unit = "kilometer" -> Kilo

\* bool(unit): None and "" are falsy, an enum member and any other str truthy.
Truthy(unit) == unit.t = "enum" \/ (unit.t = "str" /\ unit.v # "")

\* Length.__get_checked_input_unit: [exc, ret], ret a str or None.
get_checked_input_unit(unit) ==
  IF ~Truthy(unit) THEN [exc |-> NoExc, ret |-> PyNone]
  ELSE IF unit.v \notin units THEN [exc |-> UnitInvalid, ret |-> PyNone]
  ELSE [exc |-> NoExc, ret |-> unit.v]

\* The try block of Length.__get_checked_input_value: float(value), then the
\* sign test.
checked_value_try(value, label) ==
  IF value.t = "bad" THEN [exc |-> FloatError, ret |-> NaN]
  ELSE IF FLt(value.f, Zero) THEN [exc |-> Negative(label), ret |-> NaN]
  ELSE [exc |-> NoExc, ret |-> value.f]

\* Its except clause: whatever the try block raised, its own "Negative" error
\* included, is raised again as "<label> Invalid".
checked_value_except(t, label) ==
  IF t.exc # NoExc THEN [exc |-> Invalid(label), ret |-> NaN] ELSE t

\* Length.__get_checked_input_value: [exc, ret].
get_checked_input_value(value, label) ==
  checked_value_except(checked_value_try(value, label), label)

(***************************************************************************)
(* Length objects: [value |-> self.__value (meters), unit |-> self.__unit]. *)
(* NoObj stands for "no object": an unbound name, no object returned.      *)
(***************************************************************************)
NoObj == [value |-> NaN, unit |-> "<unbound>"]
Raise(e) == [exc |-> e, obj |-> NoObj]
Return(o) == [exc |-> NoExc, obj |-> o]

\* Length.__init__ after its two checks, u and v their outcomes: the factor
\* lookup raises KeyError for a unit that is no key of the table.
init_checked(u, v) ==
  IF u.exc # NoExc THEN Raise(u.exc)
  ELSE IF v.exc # NoExc THEN Raise(v.exc)
  ELSE IF u.ret \notin units THEN Raise(KeyErrorNone)
  ELSE Return([value |-> FMul(v.ret, CONVERSION_FACTOR(u.ret)), unit |-> u.ret])

\* Length.__init__(value, unit): [exc, obj].
init(value, unit) ==
  init_checked(get_checked_input_unit(unit), get_checked_input_value(value, "Length Value"))

\* A convert_to that also rescales the stored value to the new unit.
convert_to_rescaling(self, u) ==
  IF u.exc # NoExc THEN [exc |-> u.exc, obj |-> self]
  ELSE IF u.ret \notin units THEN [exc |-> NoExc, obj |-> [self EXCEPT !.unit = u.ret]]
  ELSE [exc |-> NoExc,
        obj |-> [value |-> FDiv(self.value, CONVERSION_FACTOR(u.ret)), unit |-> u.ret]]

\* Length.convert_to after its check, u the outcome.
convert_to_checked(self, u) ==
  IF u.exc # NoExc THEN [exc |-> u.exc, obj |-> self]
  ELSE [exc |-> NoExc, obj |-> [self EXCEPT !.unit = u.ret]]

\* Length.convert_to(unit): [exc, obj], obj the object after the call.
convert_to(self, unit) == convert_to_checked(self, get_checked_input_unit(unit))

\* Length.__get_value_in_units: meters to the unit (value of either sign).
get_value_in_units(value, unit) ==
  IF value.s = 1 THEN Neg(FDiv(Neg(value), CONVERSION_FACTOR(unit)))
  ELSE FDiv(value, CONVERSION_FACTOR(unit))

\* The property Length.value: [exc, ret]; the factor lookup raises KeyError
\* for a unit that is no key of the table.
value(self) ==
  IF self.unit \notin units THEN [exc |-> KeyErrorNone, ret |-> NaN]
  ELSE [exc |-> NoExc, ret |-> get_value_in_units(self.value, self.unit)]

\* The property Length.unit.
unit(self) == self.unit

\* operator.add / operator.sub on two non-negative floats.
Apply(operation, x, y) == IF operation = "add" THEN FAdd(x, y) ELSE FSub(x, y)

\* A unit choice with the test turned around: the larger of the two units.
helper_unit_larger(self_unit, other_unit, divFactor) ==
  IF self_unit = other_unit THEN self_unit
  ELSE IF FLt(One, divFactor) THEN self_unit ELSE other_unit

\* The unit of the result: factor < 1 means self_unit < other_unit.
helper_unit(self_unit, other_unit, divFactor) ==
  IF self_unit = other_unit THEN self_unit
  ELSE IF FLt(divFactor, One) THEN self_unit ELSE other_unit

\* The value of the result in new_unit, before the clamp.
helper_value(self_value, self_unit, other_value, other_unit, operation, new_unit) ==
  IF self_unit = other_unit
  THEN Apply(operation, self_value, other_value)
  ELSE get_value_in_units(
         Apply(operation, FMul(self_value, CONVERSION_FACTOR(self_unit)),
                          FMul(other_value, CONVERSION_FACTOR(other_unit))),
         new_unit)

\* The clamp: a negative result becomes zero.
helper_clamp(new_value, new_unit) ==
  [value |-> IF FLt(new_value, Zero) THEN Zero ELSE new_value, unit |-> new_unit]

helper_in_unit(self_value, self_unit, other_value, other_unit, operation, new_unit) ==
  helper_clamp(helper_value(self_value, self_unit, other_value, other_unit, operation, new_unit),
               new_unit)

\* Length.__addition_subtraction_helper: [value, unit].
addition_subtraction_helper(self_value, self_unit, other_value, other_unit, operation) ==
  helper_in_unit(self_value, self_unit, other_value, other_unit, operation,
                 helper_unit(self_unit, other_unit,
                             FDiv(CONVERSION_FACTOR(self_unit), CONVERSION_FACTOR(other_unit))))

\* Length(new_value, unit=new_unit)
from_helper(n) == init(Num(n.value), StrArg(n.unit))

\* __add__ and __sub__ with self.value and other.value read, sv and ov their
\* outcomes.
add_sub_values(self, other, operation, sv, ov) ==
  IF sv.exc # NoExc THEN Raise(sv.exc)
  ELSE IF ov.exc # NoExc THEN Raise(ov.exc)
  ELSE from_helper(addition_subtraction_helper(sv.ret, unit(self), ov.ret, unit(other), operation))

\* Length.__add__ and Length.__sub__: [exc, obj], obj the new Length.
add_sub(self, other, operation) ==
  add_sub_values(self, other, operation, value(self), value(other))
add(self, other) == add_sub(self, other, "add")
sub(self, other) == add_sub(self, other, "sub")

\* A __mul__ that scales the stored meters instead of the value in the unit.
mul_of_meters(self, s, v) ==
  IF s.exc # NoExc THEN Raise(s.exc)
  ELSE IF v.exc # NoExc THEN Raise(v.exc)
  ELSE init(Num(FMul(self.value, s.ret)), StrArg(unit(self)))

\* __mul__ with the scalar checked and self.value read, s and v their outcomes.
mul_checked(self, s, v) ==
  IF s.exc # NoExc THEN Raise(s.exc)
  ELSE IF v.exc # NoExc THEN Raise(v.exc)
  ELSE init(Num(FMul(v.ret, s.ret)), StrArg(unit(self)))

\* Length.__mul__: [exc, obj].
mul(self, scalar) ==
  mul_checked(self, get_checked_input_value(scalar, "Length Multiplication Factor"), value(self))

\* __truediv__ likewise; a float division by zero raises ZeroDivisionError.
truediv_checked(self, s, v) ==
  IF s.exc # NoExc THEN Raise(s.exc)
  ELSE IF v.exc # NoExc THEN Raise(v.exc)
  ELSE IF IsZero(s.ret) THEN Raise(ZeroDivision)
  ELSE init(Num(FDiv(v.ret, s.ret)), StrArg(unit(self)))

\* Length.__truediv__: [exc, obj].
truediv(self, scalar) ==
  truediv_checked(self, get_checked_input_value(scalar, "Length Division Factor"), value(self))

\* __floordiv__ likewise; a float floor division by zero raises too.
floordiv_checked(self, s, v) ==
  IF s.exc # NoExc THEN Raise(s.exc)
  ELSE IF v.exc # NoExc THEN Raise(v.exc)
  ELSE IF IsZero(s.ret) THEN Raise(ZeroDivision)
  ELSE init(Num(FFloorDiv(v.ret, s.ret)), StrArg(unit(self)))

\* Length.__floordiv__: [exc, obj].
floordiv(self, scalar) ==
  floordiv_checked(self, get_checked_input_value(scalar, "Length Division Factor"), value(self))

\* The operand of a comparison in meters: self.value * factor[self.unit].
in_meters(self, v) ==
  IF v.exc # NoExc THEN v ELSE [exc |-> NoExc, ret |-> FMul(v.ret, CONVERSION_FACTOR(unit(self)))]
compare_value(self) == in_meters(self, value(self))

\* The comparison of the two operands in meters, x and y.
compare_values(x, y, rel) ==
  IF x.exc # NoExc THEN [exc |-> x.exc, ret |-> FALSE]
  ELSE IF y.exc # NoExc THEN [exc |-> y.exc, ret |-> FALSE]
  ELSE [exc |-> NoExc,
        ret |-> CASE rel = "lt" -> FLt(x.ret, y.ret)
                  [] rel = "le" -> FLe(x.ret, y.ret)
                  [] rel = "gt" -> FLt(y.ret, x.ret)
                  [] rel = "ge" -> FLe(y.ret, x.ret)
                  [] rel = "eq" -> FEq(x.ret, y.ret)]

\* Length.__lt__, __le__, __gt__, __ge__, __eq__: [exc, ret].
compare(self, other, rel) == compare_values(compare_value(self), compare_value(other), rel)
lt(self, other) == compare(self, other, "lt")
le(self, other) == compare(self, other, "le")
gt(self, other) == compare(self, other, "gt")
ge(self, other) == compare(self, other, "ge")
eq(self, other) == compare(self, other, "eq")

(***************************************************************************)
(* The state: a client holding one Length object.                          *)
(*   obj    the object, NoObj before the first successful construction     *)
(*   last   the call the client has just made and not yet moved on from:   *)
(*          its operation, the operands as they were when it was made,     *)
(*          its arguments, and what it raised or returned; NoCall between  *)
(*          two calls                                                      *)
(*   chain  how many arithmetic operations produced obj from a constructed *)
(*          Length                                                         *)
(* The second operand of a binary operation is the object itself or a      *)
(* Length constructed for the call, as in  obj + Length(21, "kilometer").  *)
(***************************************************************************)
VARIABLES obj, last, chain
vars == <<obj, last, chain>>

\* How many arithmetic operations deep the object may be derived.
MaxChain == 1

\* The finite magnitudes of the inputs: zero, a float whose round trip through
\* milimeters is inexact, and the largest power of two.
Big == Fin(2 ^ (Prec - 1), MaxExp)
Magnitudes == {Zero, Round(21, 0), Big}

\* The arguments the calls are made with.
ValueArgs == {NotANumber, Num(Neg(Round(5, 0))), Num(NaN), Num(Inf)} \cup {Num(f) : f \in Magnitudes}
UnitArgs == {EnumArg("meter"), StrArg("milimeter"), StrArg("meter"), StrArg("kilometer"),
             StrArg("furlong"), StrArg(""), NoneArg}
ScalarArgs == {NotANumber, Num(Neg(One)), Num(Zero), Num(One), Num(Round(3, 0)), Num(Inf)}
Others == {init(Num(f), StrArg(u)).obj : f \in Magnitudes, u \in units}
NoArg == [t |-> "none", f |-> NaN]
NoUnitArg == [t |-> "omitted", v |-> PyNone]
Rels == {"lt", "le", "gt", "ge", "eq"}
Arithmetic == {"add", "sub", "mul", "truediv", "floordiv"}

Call(op, self, other, varg, uarg, exc, ret, bret, fret) ==
  [op |-> op, self |-> self, other |-> other, varg |-> varg, uarg |-> uarg,
   exc |-> exc, ret |-> ret, bret |-> bret, fret |-> fret]
NoCall == Call("none", NoObj, NoObj, NoArg, NoUnitArg, NoExc, NoObj, FALSE, NaN)

Idle == last = NoCall
Ready == Idle /\ obj # NoObj

Init ==
  /\ obj = NoObj
  /\ last = NoCall
  /\ chain = 0

\* The records of a call that returned a Length (or raised), a float, a bool.
Returned(op, self, other, varg, uarg, r) ==
  Call(op, self, other, varg, uarg, r.exc, r.obj, FALSE, NaN)
ReturnedFloat(op, self, r) ==
  Call(op, self, NoObj, NoArg, NoUnitArg, r.exc, NoObj, FALSE, r.ret)
ReturnedBool(op, self, other, r) ==
  Call(op, self, other, NoArg, NoUnitArg, r.exc, NoObj, r.ret, NaN)

\* obj = Length(value, unit): obj is bound only when the constructor returns.
New(v, u) ==
  /\ Idle
  /\ last' = Returned("init", NoObj, NoObj, v, u, init(v, u))
  /\ obj' = IF last'.exc = NoExc THEN last'.ret ELSE obj
  /\ chain' = IF last'.exc = NoExc THEN 0 ELSE chain

\* obj.convert_to(unit): returns None, obj is the object after the call.
ConvertTo(u) ==
  /\ Ready
  /\ obj' = convert_to(obj, u).obj
  /\ last' = Call("convert_to", obj, NoObj, NoArg, u, convert_to(obj, u).exc, NoObj, FALSE, NaN)
  /\ UNCHANGED chain

\* obj.value
GetValue ==
  /\ Ready
  /\ last' = ReturnedFloat("value", obj, value(obj))
  /\ UNCHANGED <<obj, chain>>

\* self + other, self - other, one of them obj
AddSub(self, other, operation) ==
  /\ Ready
  /\ last' = Returned(operation, self, other, NoArg, NoUnitArg, add_sub(self, other, operation))
  /\ UNCHANGED <<obj, chain>>
Add(self, other) == AddSub(self, other, "add")
Sub(self, other) == AddSub(self, other, "sub")

\* obj * scalar, obj / scalar, obj // scalar
Mul(k) ==
  /\ Ready
  /\ last' = Returned("mul", obj, NoObj, k, NoUnitArg, mul(obj, k))
  /\ UNCHANGED <<obj, chain>>
TrueDiv(k) ==
  /\ Ready
  /\ last' = Returned("truediv", obj, NoObj, k, NoUnitArg, truediv(obj, k))
  /\ UNCHANGED <<obj, chain>>
FloorDiv(k) ==
  /\ Ready
  /\ last' = Returned("floordiv", obj, NoObj, k, NoUnitArg, floordiv(obj, k))
  /\ UNCHANGED <<obj, chain>>

\* obj < other, obj <= other, obj > other, obj >= other, obj == other
Compare(other, rel) ==
  /\ Ready
  /\ last' = ReturnedBool(rel, obj, other, compare(obj, other, rel))
  /\ UNCHANGED <<obj, chain>>

\* The client moves on from the call, dropping what it returned.
Continue ==
  /\ ~Idle
  /\ last' = NoCall
  /\ UNCHANGED <<obj, chain>>

\* The client moves on, binding the Length an arithmetic operation returned:
\* obj = obj + other, obj = obj * scalar, ...
Assign ==
  /\ last.op \in Arithmetic
  /\ last.ret # NoObj
  /\ chain < MaxChain
  /\ obj' = last.ret
  /\ chain' = chain + 1
  /\ last' = NoCall

Next ==
  \/ \E v \in ValueArgs, u \in UnitArgs : New(v, u)
  \/ \E u \in UnitArgs : ConvertTo(u)
  \/ GetValue
  \/ \E o \in Others \cup {obj} : Add(obj, o) \/ Add(o, obj)
  \/ \E o \in Others \cup {obj} : Sub(obj, o) \/ Sub(o, obj)
  \/ \E k \in ScalarArgs : Mul(k)
  \/ \E k \in ScalarArgs : TrueDiv(k)
  \/ \E k \in ScalarArgs : FloorDiv(k)
  \/ \E o \in Others \cup {obj}, rel \in Rels : Compare(o, rel)
  \/ Continue
  \/ Assign

Spec == Init /\ [][Next]_vars

(***************************************************************************)
(* The claims.  Each is stated on the record of the call just made: the    *)
(* operands as they were before it (last.self, last.other), its arguments, *)
(* what it raised (last.exc) and what it returned, and the object after    *)
(* the call (obj).                                                         *)
(***************************************************************************)
ValidUnitArg(u) == Truthy(u) /\ u.v \in units
ValidUnit(o) == o.unit \in units
Constructing == last.op = "init"
Converting == last.op = "convert_to"
Dividing == last.op \in {"truediv", "floordiv"}
Scaling == last.op \in {"mul", "truediv", "floordiv"}
Combining == last.op \in {"add", "sub"}
Comparing == last.op \in Rels
ValidScalar(k) == k.t = "num" /\ FLe(Zero, k.f) /\ ~IsZero(k.f)

\* The relation rel on two meter magnitudes.
MeterRel(rel, x, y) ==
  CASE rel = "lt" -> FLt(x, y)
    [] rel = "le" -> FLe(x, y)
    [] rel = "gt" -> FLt(y, x)
    [] rel = "ge" -> FLe(y, x)
    [] rel = "eq" -> FEq(x, y)

\* The value of a Length in its display unit, the unit being valid.
Shown(o) == FDiv(o.value, CONVERSION_FACTOR(o.unit))

\* A Length with a valid display unit in which its value is finite.
Finite(o) == ValidUnit(o) /\ IsFinite(o.value) /\ IsFinite(Shown(o))

\* C1: constructing a Length from a negative magnitude fails with the
\* "Negative" error, a different error from the "Invalid" one raised for a
\* magnitude that is no number, and in both cases no Length is created.
C1_NegativeValue ==
  (Constructing /\ ValidUnitArg(last.uarg)) =>
     /\ (last.varg.t = "num" /\ FLt(last.varg.f, Zero)) =>
           (last.exc = Negative("Length Value") /\ last.ret = NoObj)
     /\ (last.varg.t = "bad") =>
           (last.exc = Invalid("Length Value") /\ last.ret = NoObj)

\* C2: the display unit of every reachable Length is one of the three valid
\* units, so its value accessor is defined and is the meter magnitude divided by
\* the factor of the display unit.
C2_DisplayUnitValid ==
  (obj # NoObj) =>
     /\ unit(obj) \in units
     /\ value(obj) = [exc |-> NoExc, ret |-> FDiv(obj.value, CONVERSION_FACTOR(unit(obj)))]

\* C3: the constructor and convert_to fail with "Length Unit Invalid" for
\* every unit argument that is not one of the three units, None and "" included,
\* and a failed convert_to leaves the instance as it was.
C3_UnitValidationTotal ==
  ((Constructing \/ Converting) /\ ~ValidUnitArg(last.uarg)) =>
     /\ last.exc = UnitInvalid
     /\ Constructing => last.ret = NoObj
     /\ Converting => obj = last.self

\* C4: the constructor rejects a magnitude that converts to infinity or NaN
\* with "Length Value Invalid", so that a constructed Length has a finite
\* magnitude.
C4_FiniteMagnitudeOnly ==
  Constructing =>
     /\ (ValidUnitArg(last.uarg) /\ last.varg.t = "num" /\ ~IsFinite(last.varg.f)) =>
           (last.exc = Invalid("Length Value") /\ last.ret = NoObj)
     /\ (last.exc = NoExc) => IsFinite(last.ret.value)

\* C5: a Length made from finite non-negative magnitudes by additions,
\* subtractions and valid scalar operations has a magnitude >= 0, and a - b
\* never fails and is exactly zero whenever b's magnitude is at least a's,
\* whatever the two display units.
C5_NonNegative ==
  /\ (last.op \in Arithmetic /\ last.ret # NoObj /\ Finite(last.self)
        /\ (Combining => Finite(last.other))
        /\ (Scaling => IsFinite(last.varg.f))) =>
        FLe(Zero, last.ret.value)
  /\ (last.op = "sub" /\ Finite(last.self) /\ Finite(last.other)
        /\ FLe(last.self.value, last.other.value)) =>
        (last.exc = NoExc /\ last.ret.value = Zero)

\* The unit the claim gives the result of a + b and a - b: a's unit when the
\* two are the same, else the one with the smaller factor.
SmallerUnit(a, b) ==
  IF a = b THEN a
  ELSE IF FLt(CONVERSION_FACTOR(a), CONVERSION_FACTOR(b)) THEN a ELSE b
ClampAtZero(x) == IF FLt(x, Zero) THEN Zero ELSE x

\* x / f for x of either sign.
FDivSigned(x, f) == IF x.s = 1 THEN Neg(FDiv(Neg(x), f)) ELSE FDiv(x, f)

\* What a + b or a - b holds in the unit nu, from the two values as shown:
\* combined directly when the units are the same, and otherwise taken back to
\* meters each, combined, and divided by the factor of nu.
CombinedShown(a, b, operation, nu) ==
  IF a.unit = b.unit
  THEN ClampAtZero(Apply(operation, Shown(a), Shown(b)))
  ELSE ClampAtZero(FDivSigned(Apply(operation,
                                    FMul(Shown(a), CONVERSION_FACTOR(a.unit)),
                                    FMul(Shown(b), CONVERSION_FACTOR(b.unit))),
                              CONVERSION_FACTOR(nu)))

\* 1 km + 1 m and 103 m + 7 km, as the spec's scenarios construct them.
OneKm == init(Num(Round(1, 0)), StrArg("kilometer")).obj
OneM == init(Num(Round(1, 0)), StrArg("meter")).obj
M103 == init(Num(Round(103, 0)), EnumArg("meter")).obj
SevenKm == init(Num(Round(7, 0)), StrArg("kilometer")).obj
Scenarios ==
  /\ add(OneKm, OneM) = Return([value |-> Round(1001, 0), unit |-> "meter"])
  /\ add(M103, SevenKm) = Return([value |-> Round(7103, 0), unit |-> "meter"])
  /\ value(add(M103, SevenKm).obj).ret = Round(7103, 0)

\* C6 (as amended): a + b and a - b raise KeyError when a display unit is None
\* and otherwise return a Length, leaving the operands alone; its unit is a's
\* when the two units are the same and else the one with the smaller factor,
\* whatever the order; its magnitude is the factor of that unit times the sum
\* (the difference clamped at zero) of the two values as shown in their units,
\* taken through meters when the units differ; 1 km + 1 m is 1001 m and
\* 103 m + 7 km is 7103 m.
C6_UnitSelection ==
  /\ Scenarios
  /\ Combining =>
       /\ obj \in {last.self, last.other}
       /\ IF ValidUnit(last.self) /\ ValidUnit(last.other)
          THEN /\ last.exc = NoExc
               /\ last.ret.unit = SmallerUnit(last.self.unit, last.other.unit)
               /\ last.ret.unit = SmallerUnit(last.other.unit, last.self.unit)
               /\ last.ret.value =
                     FMul(CombinedShown(last.self, last.other, last.op, last.ret.unit),
                          CONVERSION_FACTOR(last.ret.unit))
          ELSE last.exc = KeyErrorNone /\ last.ret = NoObj

\* C6 is reached: an addition of two non-zero finite Lengths in different
\* units returned a Length in the smaller of the two.
C6_Witness ==
  /\ last.op = "add" /\ last.exc = NoExc
  /\ last.self.unit = "kilometer" /\ last.other.unit = "milimeter"
  /\ IsFinite(last.self.value) /\ ~IsZero(last.self.value)
  /\ IsFinite(last.other.value) /\ ~IsZero(last.other.value)
  /\ last.ret.unit = "milimeter" /\ IsFinite(last.ret.value)

\* C6 as first stated: the magnitude of the result is the sum (the difference
\* clamped at zero) of the two meter magnitudes.
C6_ExactMagnitude ==
  (Combining /\ Finite(last.self) /\ Finite(last.other)) =>
     /\ last.exc = NoExc
     /\ last.ret.unit = SmallerUnit(last.self.unit, last.other.unit)
     /\ Finite(last.ret) => last.ret.value = ClampAtZero(Apply(last.op, last.self.value, last.other.value))

\* C7: obj / 0 and obj // 0 raise ZeroDivisionError for every Length, a zero
\* Length included, and leave the operand unchanged.
C7_DivisionByZero ==
  (Dividing /\ last.varg.t = "num" /\ IsZero(last.varg.f)) =>
     (last.exc = ZeroDivision /\ last.ret = NoObj /\ obj = last.self)

\* C8: each of <, <=, >, >=, == on two Lengths, whatever their display units,
\* gives what the same comparison of the two meter magnitudes gives.
C8_CompareMeters ==
  (Comparing /\ Finite(last.self) /\ Finite(last.other)) =>
     (last.exc = NoExc /\ last.bret = MeterRel(last.op, last.self.value, last.other.value))

\* The object after self.convert_to(unit) and then convert_to(back).
RoundTrip(self, back) == convert_to(self, back).obj

\* C9: convert_to with a valid unit changes the display unit to that unit and
\* never the meter magnitude, and converting back to the unit the Length had
\* restores its unit and its value.
C9_ConvertKeepsMagnitude ==
  (Converting /\ ValidUnitArg(last.uarg)) =>
     /\ last.exc = NoExc
     /\ obj.unit = last.uarg.v
     /\ obj.value = last.self.value
     /\ ValidUnit(last.self) =>
          /\ RoundTrip(obj, StrArg(last.self.unit)) = last.self
          /\ value(RoundTrip(obj, StrArg(last.self.unit))) = value(last.self)

\* C9 is reached: a non-zero finite Length was converted to another unit, in
\* which it shows another value.
C9_Witness ==
  /\ Converting /\ ValidUnitArg(last.uarg) /\ last.exc = NoExc
  /\ ValidUnit(last.self) /\ last.self.unit # last.uarg.v
  /\ IsFinite(obj.value) /\ ~IsZero(obj.value)
  /\ value(obj) # value(last.self)

\* value * scalar, value / scalar, value // scalar
ScaleShown(op, x, k) ==
  CASE op = "mul" -> FMul(x, k)
    [] op = "truediv" -> FDiv(x, k)
    [] op = "floordiv" -> FFloorDiv(x, k)

\* C10 (as amended): for a valid non-zero scalar s, a * s, a / s and a // s
\* raise KeyError when a's display unit is None and otherwise return a Length
\* in a's display unit, a unchanged, whose magnitude is the factor of that unit
\* times value * s, value / s, value // s, value being a's value as shown in
\* that unit: the result depends on the display unit.
C10_ScalarInDisplayUnit ==
  (Scaling /\ ValidScalar(last.varg)) =>
     /\ obj = last.self
     /\ IF ValidUnit(last.self)
        THEN /\ last.exc = NoExc
             /\ last.ret.unit = last.self.unit
             /\ last.ret.value =
                   FMul(ScaleShown(last.op, Shown(last.self), last.varg.f),
                        CONVERSION_FACTOR(last.self.unit))
        ELSE last.exc = KeyErrorNone /\ last.ret = NoObj

\* C10 is reached: a floor division of a non-zero finite Length shown in
\* kilometers, by a finite scalar, returned a Length.
C10_Witness ==
  /\ last.op = "floordiv" /\ ValidScalar(last.varg) /\ IsFinite(last.varg.f)
  /\ last.self.unit = "kilometer"
  /\ IsFinite(last.self.value) /\ ~IsZero(last.self.value)
  /\ last.exc = NoExc /\ last.ret.unit = "kilometer"

\* a == b
Equal(a, b) == eq(a, b) = [exc |-> NoExc, ret |-> TRUE]
ScalarResult(op, a, s) ==
  CASE op = "mul" -> mul(a, s).obj
    [] op = "truediv" -> truediv(a, s).obj
    [] op = "floordiv" -> floordiv(a, s).obj

\* C10 as first stated: when a == b, the results of a scalar operation on a
\* and on b with the same valid non-zero scalar are equal too.
C10_EqualityPreserved ==
  (Scaling /\ ValidScalar(last.varg) /\ IsFinite(last.varg.f) /\ Finite(last.self)) =>
     \A b \in Others :
        (Finite(b) /\ Equal(last.self, b)) =>
           \/ ~Finite(last.ret)
           \/ ~Finite(ScalarResult(last.op, b, last.varg))
           \/ Equal(last.ret, ScalarResult(last.op, b, last.varg))
====
